---- MODULE Spec2Model ----
(***************************************************************************)
(* Model of copra's stub generator (src/copra/generation.py).              *)
(*                                                                         *)
(* Text is modelled as a sequence of string tokens.  A child name is the   *)
(* sequence of its characters; a type tag is the sequence of its words and *)
(* of the punctuation between them ("." "[" "]").  Concatenation is \o.    *)
(* An output line is a record naming the statement form it was formatted   *)
(* from together with the texts substituted into it.                       *)
(***************************************************************************)
EXTENDS Integers, Sequences, FiniteSets, TLC

VARIABLES
    hierarchy,  \* the HierarchyDict, as the tree hierarchy.get_tree() returns
    pc,         \* position of the generate_stub call
    lines,      \* generate_stub's `lines` list
    emitted,    \* history: for each class header, the node it was built from
    stub        \* content of the stub file on disk

vars == <<hierarchy, pc, lines, emitted, stub>>

-----------------------------------------------------------------------------
(* Bounds of the model *)

\* largest number of entries (root included) a discovered tree holds
MaxNodes == 4

-----------------------------------------------------------------------------
(* Characters and names *)

\* the printable ASCII characters that occur in names, by code point
Ascii == <<"-", "0", "1", "2", "3", "4", "5", "6", "7", "8", "9",
           "[", "]", "_",
           "a", "b", "c", "d", "e", "g", "k", "p", "r", "s", "t", "u", "x">>

CodePoints == <<45, 48, 49, 50, 51, 52, 53, 54, 55, 56, 57,
                91, 93, 95,
                97, 98, 99, 100, 101, 103, 107, 112, 114, 115, 116, 117, 120>>

\* ord(c)
Ord(c) == CodePoints[CHOOSE i \in 1..Len(Ascii) : Ascii[i] = c]

IsDigit(c) == Ord(c) >= 48 /\ Ord(c) <= 57
IsAlpha(c) == Ord(c) >= 97 /\ Ord(c) <= 122

\* `c in s` for a one-token needle
Contains(s, c) == \E i \in 1..Len(s) : s[i] = c

\* s.startswith(c), s.endswith(c)
startswith(s, c) == Len(s) > 0 /\ s[1] = c
endswith(s, c) == Len(s) > 0 /\ s[Len(s)] = c

\* str.isidentifier() on the ASCII names of the model
isidentifier(s) ==
    /\ Len(s) > 0
    /\ (IsAlpha(s[1]) \/ s[1] = "_")
    /\ \A i \in 1..Len(s) : IsAlpha(s[i]) \/ IsDigit(s[i]) \/ s[i] = "_"

\* '[' in name and name.endswith(']')
IsIndexed(name) == Contains(name, "[") /\ endswith(name, "]")

\* str < str: lexicographic by code point
RECURSIVE StrLess(_, _)
StrLess(s, t) ==
    IF t = <<>> THEN FALSE
    ELSE IF s = <<>> THEN TRUE
    ELSE IF Ord(Head(s)) < Ord(Head(t)) THEN TRUE
    ELSE IF Ord(Head(s)) > Ord(Head(t)) THEN FALSE
    ELSE StrLess(Tail(s), Tail(t))

\* sanitize_name (copra.introspection): every character that cannot occur in
\* an identifier becomes "_"; a leading digit is prefixed by "_"
sanitize_name(name) ==
    LET repl == [i \in 1..Len(name) |->
                    IF IsAlpha(name[i]) \/ IsDigit(name[i]) \/ name[i] = "_"
                    THEN name[i] ELSE "_"]
    IN IF Len(repl) > 0 /\ IsDigit(repl[1]) THEN <<"_">> \o repl ELSE repl

\* str(w) for w >= 0: the decimal digits of w
RECURSIVE Decimal(_)
Decimal(w) ==
    LET d == <<"0", "1", "2", "3", "4", "5", "6", "7", "8", "9">>[(w % 10) + 1]
    IN IF w < 10 THEN <<d>> ELSE Decimal(w \div 10) \o <<d>>

\* s.split('.')[-1]
RECURSIVE LastDotPart(_)
LastDotPart(s) ==
    IF s = <<>> THEN <<>>
    ELSE IF Contains(Tail(s), ".") THEN LastDotPart(Tail(s))
    ELSE IF Head(s) = "." THEN Tail(s)
    ELSE s

\* `needle in s` for texts of tokens
In(needle, s) ==
    \E i \in 1..(Len(s) + 1) :
        /\ i + Len(needle) - 1 <= Len(s)
        /\ SubSeq(s, i, i + Len(needle) - 1) = needle

-----------------------------------------------------------------------------
(* Configuration (copra.config.get_config) *)

\* config.types.base_classes
base_classes ==
    [hierarchy       |-> <<"cocotb", ".", "handle", ".", "HierarchyObject">>,
     hierarchy_array |-> <<"cocotb", ".", "handle", ".", "HierarchyArrayObject">>]

\* config.types.import_statements
import_statements ==
    << <<"from typing import overload, Literal">>, <<"import cocotb.handle">> >>

\* config.output.header_lines
header_lines == << <<"Auto-generated type stubs">> >>

\* config.output.root_class_name
root_class_name == <<"D", "U", "T">>

-----------------------------------------------------------------------------
(* Hierarchy: nodes and the tree *)

\* Python's None, for HierarchyNode.width
None == -1

\* a node object that has no py_type attribute
NoPyType == <<"<no py_type>">>

\* the value of subtree["_node"] when the entry holds no node
NoNode == [path |-> <<>>, py_type |-> <<>>, width |-> None, is_scope |-> FALSE]

\* getattr(node, "py_type", "")
getattr_py_type(node) == IF node.py_type = NoPyType THEN <<>> ELSE node.py_type

\* path.count('.') of a path kept as the sequence of its segments
count_dots(path) == Len(path) - 1

\* {"_node": ..., "_children": {}}
Subtree(has_node, node) == [has_node |-> has_node, node |-> node, children |-> <<>>]

\* list(mapping.keys())
keys(mapping) == [i \in 1..Len(mapping) |-> mapping[i].name]

\* sorted(mapping.items()): names are unique in a mapping, so the names decide
RECURSIVE sorted(_)
sorted(items) ==
    IF items = <<>> THEN <<>>
    ELSE LET i == CHOOSE k \in 1..Len(items) :
                     \A j \in 1..Len(items) : j = k \/ StrLess(items[k].name, items[j].name)
             rest == [j \in 1..(Len(items) - 1) |-> IF j < i THEN items[j] ELSE items[j + 1]]
         IN <<items[i]>> \o sorted(rest)

\* hierarchy.get_nodes(): every node held by an entry of the tree
RECURSIVE get_nodes(_)
get_nodes(mapping) ==
    UNION { (IF mapping[i].sub.has_node THEN {mapping[i].sub.node} ELSE {})
            \cup get_nodes(mapping[i].sub.children) : i \in 1..Len(mapping) }

\* number of entries of a tree
RECURSIVE Size(_)
Size(mapping) ==
    IF mapping = <<>> THEN 0
    ELSE 1 + Size(Head(mapping).sub.children) + Size(Tail(mapping))

-----------------------------------------------------------------------------
(* Output lines *)

Line(kind, indent_str, name, ann) ==
    [kind |-> kind, indent |-> indent_str, name |-> name, ann |-> ann]

\* ""
Blank == Line("blank", <<>>, <<>>, <<>>)
\* an import statement, verbatim
ImportLine(text) == Line("import", <<>>, text, <<>>)
\* f'LogicArray{w} = NewType("LogicArray{w}", cocotb.handle.LogicArrayObject)'
AliasLine(w) == Line("alias", <<>>, <<"LogicArray">> \o Decimal(w), <<>>)
\* f"# {header_line}"
CommentLine(text) == Line("comment", <<>>, text, <<>>)
\* f"class {name}({base}):"
ClassLine(name, base) == Line("class", <<>>, name, base)
\* "    pass"
PassLine == Line("pass", <<" ", " ", " ", " ">>, <<>>, <<>>)
\* f"{indent_str}{child_name}: {type_ann}"
AttrLine(indent_str, name, ann) == Line("attr", indent_str, name, ann)
\* f"{indent_str}@overload"
DecoratorLine(indent_str) == Line("decorator", indent_str, <<>>, <<>>)
\* f"{indent_str}def __getitem__(self, name: Literal[{repr(n)}]) -> {t}: ..."
GetitemLine(indent_str, n, t) == Line("getitem", indent_str, n, t)
\* f"{indent_str}def __getitem__(self, name: str) -> cocotb.handle.SimHandleBase: ..."
GetitemStrLine(indent_str) ==
    Line("getitem_str", indent_str, <<>>, <<"cocotb", ".", "handle", ".", "SimHandleBase">>)

Indent4 == <<" ", " ", " ", " ">>

-----------------------------------------------------------------------------
(* generate_stub, lines 26-34: the width aliases *)

\* line 29 without the test of the type tag
is_logic_array_with_width_any_type(node) == node.width # None

\* the condition of line 29
is_logic_array_with_width(node) ==
    node.width # None /\ In(<<"LogicArrayObject">>, getattr_py_type(node))

\* found_widths after the loop of lines 28-30
found_widths(nodes) == { node.width : node \in { n \in nodes : is_logic_array_with_width(n) } }

\* sorted(found_widths)
RECURSIVE sorted_widths(_)
sorted_widths(ws) ==
    IF ws = {} THEN <<>>
    ELSE LET w == CHOOSE x \in ws : \A y \in ws : x <= y
         IN <<w>> \o sorted_widths(ws \ {w})

\* lines 33-34
RECURSIVE alias_lines_of(_)
alias_lines_of(ws) ==
    IF ws = <<>> THEN <<>> ELSE <<AliasLine(Head(ws))>> \o alias_lines_of(Tail(ws))

alias_lines(nodes) == alias_lines_of(sorted_widths(found_widths(nodes)))

-----------------------------------------------------------------------------
(* _generate_class_attributes *)

\* the marker of an array of scopes: base_classes['hierarchy_array'].split('.')[-1]
array_marker == LastDotPart(base_classes.hierarchy_array)

\* line 90
can_be_attr(child_name, child_node) ==
    isidentifier(child_name) /\ (child_node.is_scope \/ ~startswith(child_name, "_"))

\* lines 92-100 without the test of line 96 for "[" in the tag
attr_type_ann_always_wrapped(child_name, child_node) ==
    IF child_node.is_scope
    THEN IF In(array_marker, child_node.py_type)
         THEN base_classes.hierarchy_array \o <<"[">> \o sanitize_name(child_name) \o <<"]">>
         ELSE sanitize_name(child_name)
    ELSE IF In(<<"LogicArrayObject">>, child_node.py_type) /\ child_node.width # None
         THEN <<"LogicArray">> \o Decimal(child_node.width)
         ELSE child_node.py_type

\* lines 92-100: type_ann of a child that has a py_type
attr_type_ann(child_name, child_node) ==
    IF child_node.is_scope
    THEN IF In(array_marker, child_node.py_type)
         THEN IF In(<<"[">>, child_node.py_type)
              THEN child_node.py_type
              ELSE base_classes.hierarchy_array \o <<"[">> \o sanitize_name(child_name) \o <<"]">>
         ELSE sanitize_name(child_name)
    ELSE IF In(<<"LogicArrayObject">>, child_node.py_type) /\ child_node.width # None
         THEN <<"LogicArray">> \o Decimal(child_node.width)
         ELSE child_node.py_type

\* lines 85-102: one iteration of the loop; acc is [lines, raised]
attr_step(acc, item, indent_str, filter_deep_signals) ==
    LET child_name == item.name
        child_node == item.sub.node
    IN IF IsIndexed(child_name) THEN acc
       ELSE IF ~item.sub.has_node THEN acc
       ELSE IF filter_deep_signals /\ ~child_node.is_scope /\ count_dots(child_node.path) > 1
            THEN acc
       ELSE IF ~can_be_attr(child_name, child_node) THEN acc
       ELSE IF child_node.py_type = NoPyType THEN [acc EXCEPT !.raised = TRUE]
       ELSE [acc EXCEPT !.lines =
                Append(@, AttrLine(indent_str, child_name, attr_type_ann(child_name, child_node)))]

RECURSIVE attr_loop(_, _, _, _)
attr_loop(acc, items, indent_str, filter_deep_signals) ==
    IF items = <<>> \/ acc.raised THEN acc
    ELSE attr_loop(attr_step(acc, Head(items), indent_str, filter_deep_signals),
                   Tail(items), indent_str, filter_deep_signals)

\* _generate_class_attributes(lines, children, indent_str, filter_deep_signals)
generate_class_attributes(acc, children, indent_str, filter_deep_signals) ==
    attr_loop(acc, sorted(children), indent_str, filter_deep_signals)

-----------------------------------------------------------------------------
(* _generate_getitem_overloads *)

\* lines 112-122: type_ann of a child that has a py_type
overload_type_ann(name, node) ==
    IF node.is_scope
    THEN IF In(array_marker, node.py_type)
         THEN IF In(<<"[">>, node.py_type)
              THEN node.py_type
              ELSE base_classes.hierarchy_array \o <<"[">> \o sanitize_name(name) \o <<"]">>
         ELSE sanitize_name(name)
    ELSE IF In(<<"LogicArrayObject">>, node.py_type) /\ node.width # None
         THEN <<"LogicArray">> \o Decimal(node.width)
         ELSE node.py_type

\* lines 107-125 without the test of line 107 for an indexed name
overload_step_unfiltered(acc, item, filter_deep_signals) ==
    LET name == item.name
        node == item.sub.node
    IN IF ~item.sub.has_node THEN acc
       ELSE IF filter_deep_signals /\ ~node.is_scope /\ count_dots(node.path) > 1 THEN acc
       ELSE IF node.py_type = NoPyType THEN [acc EXCEPT !.raised = TRUE]
       ELSE [acc EXCEPT !.overloads =
                Append(@, [n |-> name, t |-> overload_type_ann(name, node)])]

\* lines 107-125: one iteration of the loop; acc is [overloads, raised]
overload_step(acc, item, filter_deep_signals) ==
    LET name == item.name
        node == item.sub.node
    IN IF IsIndexed(name) THEN acc
       ELSE IF ~item.sub.has_node THEN acc
       ELSE IF filter_deep_signals /\ ~node.is_scope /\ count_dots(node.path) > 1 THEN acc
       ELSE IF node.py_type = NoPyType THEN [acc EXCEPT !.raised = TRUE]
       ELSE [acc EXCEPT !.overloads =
                Append(@, [n |-> name, t |-> overload_type_ann(name, node)])]

\* lines 106-125: children.items() is walked in insertion order
RECURSIVE overload_loop(_, _, _)
overload_loop(acc, items, filter_deep_signals) ==
    IF items = <<>> \/ acc.raised THEN acc
    ELSE overload_loop(overload_step(acc, Head(items), filter_deep_signals),
                       Tail(items), filter_deep_signals)

\* lines 129-132
RECURSIVE overload_lines(_, _)
overload_lines(overloads, indent_str) ==
    IF overloads = <<>> THEN <<>>
    ELSE <<DecoratorLine(indent_str),
           GetitemLine(indent_str, Head(overloads).n, Head(overloads).t),
           Blank>> \o overload_lines(Tail(overloads), indent_str)

\* lines 127-135: the overloads found are appended, then the fallback
append_overloads(acc, r, indent_str) ==
    IF r.raised THEN [acc EXCEPT !.raised = TRUE]
    ELSE IF r.overloads = <<>> THEN acc
    ELSE [acc EXCEPT !.lines =
             @ \o <<Blank>> \o overload_lines(r.overloads, indent_str)
               \o <<DecoratorLine(indent_str), GetitemStrLine(indent_str), Blank>>]

\* _generate_getitem_overloads walking sorted(children.items()), as the attributes do
generate_getitem_overloads_sorted(acc, children, indent_str, filter_deep_signals) ==
    append_overloads(acc,
                     overload_loop([overloads |-> <<>>, raised |-> FALSE], sorted(children),
                                   filter_deep_signals),
                     indent_str)

\* _generate_getitem_overloads(lines, children, indent_str, filter_deep_signals)
generate_getitem_overloads(acc, children, indent_str, filter_deep_signals) ==
    append_overloads(acc,
                     overload_loop([overloads |-> <<>>, raised |-> FALSE], children,
                                   filter_deep_signals),
                     indent_str)

-----------------------------------------------------------------------------
(* _generate_meaningful_classes *)

\* lines 154-163: ctann of a child that has a py_type
nested_type_ann(cname, cnode) ==
    IF cnode.is_scope
    THEN IF In(array_marker, cnode.py_type)
         THEN IF In(<<"[">>, cnode.py_type)
              THEN cnode.py_type
              ELSE base_classes.hierarchy_array \o <<"[">> \o sanitize_name(cname) \o <<"]">>
         ELSE sanitize_name(cname)
    ELSE IF In(<<"LogicArrayObject">>, cnode.py_type) /\ cnode.width # None
         THEN <<"LogicArray">> \o Decimal(cnode.width)
         ELSE cnode.py_type

\* lines 150-166: one iteration of the loop; acc is [lines, raised, has_children]
nested_attr_step(acc, item) ==
    LET cname == item.name
        cnode == item.sub.node
    IN IF IsIndexed(cname) THEN acc
       ELSE IF ~item.sub.has_node THEN acc
       ELSE IF cnode.py_type = NoPyType
            THEN [acc EXCEPT !.has_children = TRUE, !.raised = TRUE]
       ELSE [acc EXCEPT !.has_children = TRUE,
                        !.lines = Append(@, AttrLine(Indent4, cname, nested_type_ann(cname, cnode)))]

RECURSIVE nested_attr_loop(_, _)
nested_attr_loop(acc, items) ==
    IF items = <<>> \/ acc.raised THEN acc
    ELSE nested_attr_loop(nested_attr_step(acc, Head(items)), Tail(items))

\* line 141: the node gets a class of its own
is_meaningful(name, subtree, tree) ==
    /\ subtree.has_node
    /\ subtree.node.is_scope
    /\ subtree.children # <<>>
    /\ name # keys(tree)[1]

\* line 170, reached unless an exception left the function
end_class(acc) == IF acc.raised THEN acc ELSE [acc EXCEPT !.lines = Append(@, Blank)]

\* lines 168-170: b is the state of the attribute loop at its end
nested_class_end(acc, b, children) ==
    IF b.raised THEN [acc EXCEPT !.lines = b.lines, !.raised = TRUE]
    ELSE IF ~b.has_children
         THEN end_class([acc EXCEPT !.lines = Append(b.lines, PassLine)])
         ELSE end_class(generate_getitem_overloads([acc EXCEPT !.lines = b.lines],
                                                   children, Indent4, FALSE))

\* lines 148-170: the body of a nested class
nested_class_body(acc, children) ==
    nested_class_end(acc,
                     nested_attr_loop([lines |-> acc.lines, raised |-> FALSE,
                                       has_children |-> FALSE], sorted(children)),
                     children)

\* line 146 (and, for the root, line 70): the class header
class_header(acc, cls_name, base, path) ==
    [acc EXCEPT !.lines = Append(@, ClassLine(cls_name, base)),
                !.emitted = Append(@, [line |-> Len(acc.lines) + 1, path |-> path])]

\* lines 144-170: the class of one node; acc is [lines, raised, generated_classes, emitted]
nested_class(acc, cls_name, node, children) ==
    IF node.py_type = NoPyType
    THEN [acc EXCEPT !.generated_classes = @ \cup {cls_name}, !.raised = TRUE]
    ELSE nested_class_body(
             class_header([acc EXCEPT !.generated_classes = @ \cup {cls_name}],
                          cls_name,
                          IF In(array_marker, node.py_type)
                          THEN base_classes.hierarchy_array ELSE base_classes.hierarchy,
                          node.path),
             children)

\* lines 142-143: the class is new
is_new_class(cls_name, generated_classes, top_class_name) ==
    cls_name \notin generated_classes /\ cls_name # top_class_name

\* lines 139-170: the body of the loop before the recursive call
meaningful_step(acc, item, tree, top_class_name) ==
    IF /\ is_meaningful(item.name, item.sub, tree)
       /\ is_new_class(sanitize_name(item.name), acc.generated_classes, top_class_name)
    THEN nested_class(acc, sanitize_name(item.name), item.sub.node, item.sub.children)
    ELSE acc

RECURSIVE generate_meaningful_classes(_, _, _)
RECURSIVE meaningful_loop(_, _, _, _)

\* line 171: the recursive call, reached unless an exception left the function
meaningful_descend(acc, children, top_class_name) ==
    IF acc.raised THEN acc
    ELSE generate_meaningful_classes(children, acc, top_class_name)

\* lines 138-171: the loop over sorted(tree.items())
meaningful_loop(acc, items, tree, top_class_name) ==
    IF items = <<>> \/ acc.raised THEN acc
    ELSE meaningful_loop(
             meaningful_descend(meaningful_step(acc, Head(items), tree, top_class_name),
                                Head(items).sub.children, top_class_name),
             Tail(items), tree, top_class_name)

\* _generate_meaningful_classes(tree, lines, generated_classes, top_class_name)
generate_meaningful_classes(tree, acc, top_class_name) ==
    meaningful_loop(acc, sorted(tree), tree, top_class_name)

-----------------------------------------------------------------------------
(* _generate_classes *)

\* line 77, reached unless line 76 raised
root_overloads(acc, children) ==
    IF acc.raised THEN acc ELSE generate_getitem_overloads(acc, children, Indent4, FALSE)

\* lines 72-78: the body of the root class
root_class_body(acc, children) ==
    IF children = <<>> THEN end_class([acc EXCEPT !.lines = Append(@, PassLine)])
    ELSE end_class(root_overloads(
                       generate_class_attributes(acc, children, Indent4, FALSE),
                       children))

\* lines 62-78: the root class
root_class(acc, top_key, top_tree) ==
    IF top_tree.has_node /\ top_tree.node.py_type = NoPyType
    THEN [acc EXCEPT !.raised = TRUE]
    ELSE root_class_body(
             class_header(acc, sanitize_name(top_key),
                          IF top_tree.has_node /\ In(array_marker, top_tree.node.py_type)
                          THEN base_classes.hierarchy_array ELSE base_classes.hierarchy,
                          <<top_key>>),
             top_tree.children)

\* lines 80-81
nested_classes(acc, tree, top_class_name) ==
    IF acc.raised THEN acc
    ELSE generate_meaningful_classes(tree, [acc EXCEPT !.generated_classes = {}],
                                     top_class_name)

\* _generate_classes(tree, lines, top_key, top_tree)
generate_classes(tree, acc, top_key, top_tree) ==
    nested_classes(root_class(acc, top_key, top_tree), tree, sanitize_name(top_key))

-----------------------------------------------------------------------------
(* generate_stub *)

\* lines 19-40: imports, width aliases, header
preamble(tree) ==
    [i \in 1..Len(import_statements) |-> ImportLine(import_statements[i])]
    \o <<ImportLine(<<"from typing import NewType">>), Blank>>
    \o alias_lines(get_nodes(tree))
    \o <<Blank>>
    \o [i \in 1..Len(header_lines) |-> CommentLine(header_lines[i])]
    \o <<Blank>>

\* lines 42-52: the classes
classes(acc, tree) ==
    IF tree = <<>>
    THEN [acc EXCEPT !.lines = @ \o <<ClassLine(root_class_name, base_classes.hierarchy),
                                      PassLine, Blank>>]
    ELSE generate_classes(tree, acc, keys(tree)[1], tree[1].sub)

\* lines 19-52: the lines of the stub, or the exception raised on the way
stub_lines(tree) ==
    classes([lines |-> preamble(tree), raised |-> FALSE,
             generated_classes |-> {}, emitted |-> <<>>], tree)

-----------------------------------------------------------------------------
(* The hierarchies generate_stub is called on *)

T_Hierarchy      == <<"cocotb", ".", "handle", ".", "HierarchyObject">>
T_HierarchyArray == <<"cocotb", ".", "handle", ".", "HierarchyArrayObject">>
T_HierarchyArrayOf ==
    <<"cocotb", ".", "handle", ".", "HierarchyArrayObject", "[",
      "cocotb", ".", "handle", ".", "HierarchyObject", "]">>
T_Logic          == <<"cocotb", ".", "handle", ".", "LogicObject">>
T_LogicArray     == <<"cocotb", ".", "handle", ".", "LogicArrayObject">>

Kind(has_node, py_type, width, is_scope) ==
    [has_node |-> has_node, py_type |-> py_type, width |-> width, is_scope |-> is_scope]

K_scope   == Kind(TRUE, T_Hierarchy, None, TRUE)
K_array   == Kind(TRUE, T_HierarchyArray, None, TRUE)
K_arrayOf == Kind(TRUE, T_HierarchyArrayOf, None, TRUE)
K_logic   == Kind(TRUE, T_Logic, None, FALSE)
K_bit     == Kind(TRUE, T_Logic, 1, FALSE)
K_vec8    == Kind(TRUE, T_LogicArray, 8, FALSE)
K_vec16   == Kind(TRUE, T_LogicArray, 16, FALSE)
K_vec     == Kind(TRUE, T_LogicArray, None, FALSE)
K_untyped == Kind(TRUE, NoPyType, 8, FALSE)
K_absent  == Kind(FALSE, <<>>, None, FALSE)

N_dut == <<"d", "u", "t">>
N_a   == <<"a">>
N_b   == <<"b">>
N_c   == <<"c">>
N_p   == <<"_", "p">>
N_a0  == <<"a", "[", "0", "]">>
N_a_b == <<"a", "-", "b">>

\* the subtree of a new entry
NewSubtree(path, kind) ==
    Subtree(kind.has_node,
            IF kind.has_node
            THEN [path |-> path, py_type |-> kind.py_type, width |-> kind.width,
                  is_scope |-> kind.is_scope]
            ELSE NoNode)

\* the paths of the entries that may hold children: scopes, and entries whose
\* node is not discovered
RECURSIVE ScopePaths(_, _)
ScopePaths(mapping, prefix) ==
    UNION { LET p == prefix \o <<mapping[i].name>>
            IN IF ~mapping[i].sub.has_node \/ mapping[i].sub.node.is_scope
               THEN {p} \cup ScopePaths(mapping[i].sub.children, p)
               ELSE {} : i \in 1..Len(mapping) }

\* tree[p1]["_children"][p2]["_children"]...
RECURSIVE ChildrenAt(_, _)
ChildrenAt(mapping, path) ==
    IF path = <<>> THEN mapping
    ELSE LET i == CHOOSE k \in 1..Len(mapping) : mapping[k].name = Head(path)
         IN ChildrenAt(mapping[i].sub.children, Tail(path))

\* the tree with a new last entry in the mapping at `parent`
RECURSIVE Inserted(_, _, _)
Inserted(mapping, parent, item) ==
    IF parent = <<>> THEN Append(mapping, item)
    ELSE [i \in 1..Len(mapping) |->
            IF mapping[i].name = Head(parent)
            THEN [mapping[i] EXCEPT !.sub.children = Inserted(@, Tail(parent), item)]
            ELSE mapping[i]]

-----------------------------------------------------------------------------
(* Actions *)

Init ==
    /\ hierarchy = <<>>
    /\ pc = "discover"
    /\ lines = <<>>
    /\ emitted = <<>>
    /\ stub = <<>>

\* discovery adds the design root to the empty hierarchy
AddRoot(roots) ==
    /\ pc = "discover"
    /\ hierarchy = <<>>
    /\ \E r \in roots :
          hierarchy' = <<[name |-> r.name, sub |-> NewSubtree(<<r.name>>, r.kind)]>>
    /\ UNCHANGED <<pc, lines, emitted, stub>>

\* discovery adds an object below a scope already in the hierarchy
AddNode(entries) ==
    /\ pc = "discover"
    /\ Size(hierarchy) < MaxNodes
    /\ \E parent \in ScopePaths(hierarchy, <<>>), e \in entries :
          /\ \A i \in 1..Len(ChildrenAt(hierarchy, parent)) :
                ChildrenAt(hierarchy, parent)[i].name # e.name
          /\ hierarchy' = Inserted(hierarchy, parent,
                                   [name |-> e.name,
                                    sub  |-> NewSubtree(parent \o <<e.name>>, e.kind)])
    /\ UNCHANGED <<pc, lines, emitted, stub>>

\* lines 54-59, or the exception leaving generate_stub: r is what lines 19-52 built
finish(r) ==
    /\ lines' = r.lines
    /\ emitted' = r.emitted
    /\ IF r.raised
       THEN pc' = "raised" /\ stub' = stub
       ELSE \E written \in BOOLEAN :
               IF written
               THEN pc' = "done" /\ stub' = r.lines
               ELSE pc' = "io_error" /\ stub' = stub

\* generate_stub(hierarchy, out_dir): lines 19-59
generate_stub ==
    /\ pc = "discover"
    /\ finish(stub_lines(hierarchy))
    /\ UNCHANGED hierarchy

-----------------------------------------------------------------------------
(* Specifications: the objects discovery finds *)

\* a design of nested scopes: plain scopes, arrays of scopes, indexed elements
ScopeRoots == { [name |-> N_dut, kind |-> K_scope], [name |-> N_a, kind |-> K_array] }

ScopeEntries ==
    { [name |-> N_a,  kind |-> K_scope],
      [name |-> N_b,  kind |-> K_array],
      [name |-> N_c,  kind |-> K_arrayOf],
      [name |-> N_a0, kind |-> K_scope],
      [name |-> N_a0, kind |-> K_logic],
      [name |-> N_b,  kind |-> K_logic],
      [name |-> N_p,  kind |-> K_scope],
      [name |-> N_c,  kind |-> K_absent] }

Next == AddRoot(ScopeRoots) \/ AddNode(ScopeEntries) \/ generate_stub

Spec == Init /\ [][Next]_vars

\* a design of signals: vectors of several widths, single bits, private and
\* untyped objects, below the root or one scope
SignalRoots == { [name |-> N_dut, kind |-> K_scope], [name |-> N_dut, kind |-> K_absent] }

SignalEntries ==
    { [name |-> N_a,   kind |-> K_vec8],
      [name |-> N_b,   kind |-> K_vec16],
      [name |-> N_b,   kind |-> K_vec],
      [name |-> N_c,   kind |-> K_bit],
      [name |-> N_p,   kind |-> K_logic],
      [name |-> N_a_b, kind |-> K_logic],
      [name |-> N_a0,  kind |-> K_vec8],
      [name |-> N_b,   kind |-> K_untyped],
      [name |-> N_c,   kind |-> K_absent],
      [name |-> N_a,   kind |-> K_scope] }

NextSignals == AddRoot(SignalRoots) \/ AddNode(SignalEntries) \/ generate_stub

SpecSignals == Init /\ [][NextSignals]_vars

-----------------------------------------------------------------------------
(* Reading the stub and the hierarchy, for the properties below *)

\* the paths of all entries of a tree
RECURSIVE AllPaths(_, _)
AllPaths(mapping, prefix) ==
    UNION { {prefix \o <<mapping[i].name>>}
            \cup AllPaths(mapping[i].sub.children, prefix \o <<mapping[i].name>>)
            : i \in 1..Len(mapping) }

Front(path) == SubSeq(path, 1, Len(path) - 1)
Last(path) == path[Len(path)]

\* the entry of the hierarchy at a path
EntryAt(path) ==
    LET ch == ChildrenAt(hierarchy, Front(path))
    IN ch[CHOOSE k \in 1..Len(ch) : ch[k].name = Last(path)]

\* the children mapping of the entry at a path
ChildrenOf(path) == ChildrenAt(hierarchy, path)

\* the child called `name` of the entry at a path
ChildNamed(path, name) == EntryAt(path \o <<name>>)

IsScopeWithChildren(path) ==
    /\ EntryAt(path).sub.has_node
    /\ EntryAt(path).sub.node.is_scope
    /\ EntryAt(path).sub.children # <<>>

\* the order in which the nested-class walk meets the entries: siblings by
\* name, an entry before its descendants
RECURSIVE Preorder(_, _)
Preorder(items, prefix) ==
    IF items = <<>> THEN <<>>
    ELSE <<prefix \o <<Head(items).name>>>>
         \o Preorder(sorted(Head(items).sub.children), prefix \o <<Head(items).name>>)
         \o Preorder(Tail(items), prefix)

TraversalOrder == Preorder(sorted(hierarchy), <<>>)

PositionIn(order, path) == CHOOSE k \in 1..Len(order) : order[k] = path

\* the class headers of the stub
ClassLineIdx == { i \in 1..Len(stub) : stub[i].kind = "class" }

\* the lines of the class whose header is line i: up to the next header
Body(i) ==
    LET later == { j \in ClassLineIdx : j > i }
        last  == IF later = {} THEN Len(stub)
                 ELSE (CHOOSE j \in later : \A k \in later : j <= k) - 1
    IN SubSeq(stub, i + 1, last)

IsAttr(l) == l.kind = "attr"
IsGetitem(l) == l.kind = "getitem"
IsAlias(l) == l.kind = "alias"

ClassNamed(cls) == { i \in ClassLineIdx : stub[i].name = cls }

EmittedIdx == 1..Len(emitted)

\* the value of a decimal numeral
RECURSIVE ParseDecimal(_)
ParseDecimal(s) ==
    IF s = <<>> THEN 0 ELSE 10 * ParseDecimal(Front(s)) + (Ord(Last(s)) - 48)

IsArrayTag(tag) == In(<<"HierarchyArrayObject">>, tag)
HasParameter(tag) == In(<<"[">>, tag)
IsVectorTag(tag) == In(<<"LogicArrayObject">>, tag)

ArrayOf(cls) == base_classes.hierarchy_array \o <<"[">> \o cls \o <<"]">>

-----------------------------------------------------------------------------
(* Properties *)

\* C1: every node that is a scope, has a child, lies below the top-level
\* entry and whose sanitized name differs from the root's class name has a
\* class declaration of that name in the stub, at every depth and position.
C1_EveryNestedScopeHasClass ==
    pc = "done" =>
        \A p \in AllPaths(hierarchy, <<>>) :
            ( /\ Len(p) > 1
              /\ IsScopeWithChildren(p)
              /\ sanitize_name(Last(p)) # sanitize_name(hierarchy[1].name) )
            => ClassNamed(sanitize_name(Last(p))) # {}

\* C2: when two scopes with children at different paths sanitize to the same
\* class name, the stub declares exactly one class of that name, built from
\* the one the traversal meets first.
C2_OneClassFromFirstOccurrence ==
    pc = "done" =>
        \A p \in AllPaths(hierarchy, <<>>), q \in AllPaths(hierarchy, <<>>) :
            ( /\ p # q
              /\ IsScopeWithChildren(p)
              /\ IsScopeWithChildren(q)
              /\ sanitize_name(Last(p)) = sanitize_name(Last(q))
              /\ PositionIn(TraversalOrder, p) < PositionIn(TraversalOrder, q) )
            => /\ Cardinality(ClassNamed(sanitize_name(Last(p)))) = 1
               /\ \A r \in AllPaths(hierarchy, <<>>) :
                     ( /\ IsScopeWithChildren(r)
                       /\ sanitize_name(Last(r)) = sanitize_name(Last(p))
                       /\ \E e \in EmittedIdx :
                             /\ emitted[e].path = r
                             /\ emitted[e].line \in ClassNamed(sanitize_name(Last(p))) )
                     => PositionIn(TraversalOrder, r) <= PositionIn(TraversalOrder, p)

\* C4: in every class of the stub a child with a node has an attribute line
\* iff it is not an indexed element, its name is an identifier and, unless it
\* is a scope, its name does not begin with "_"; the attribute lines of a
\* class are sorted by name.
C4_AttributeFilter ==
    pc = "done" =>
        \A e \in EmittedIdx :
            LET ch    == ChildrenOf(emitted[e].path)
                attrs == SelectSeq(Body(emitted[e].line), IsAttr)
            IN /\ \A k \in 1..Len(ch) :
                     ch[k].sub.has_node =>
                        ( (\E j \in 1..Len(attrs) : attrs[j].name = ch[k].name)
                          <=> ( /\ ~IsIndexed(ch[k].name)
                                /\ isidentifier(ch[k].name)
                                /\ (ch[k].sub.node.is_scope \/ ~startswith(ch[k].name, "_")) ) )
               /\ \A i \in 1..Len(attrs), j \in 1..Len(attrs) :
                     i < j => StrLess(attrs[i].name, attrs[j].name)

\* C8: generate_stub never raises because of the shape of the tree.
C8_NeverRaises == pc # "raised"

\* C9: every class name used as the annotation of a scope child, bare or as
\* the parameter of the array base, is the name of a class the stub declares.
C9_NoDanglingClassReference ==
    pc = "done" =>
        \A e \in EmittedIdx :
            LET body == Body(emitted[e].line)
            IN \A j \in 1..Len(body) :
                  ( /\ body[j].kind \in {"attr", "getitem"}
                    /\ ChildNamed(emitted[e].path, body[j].name).sub.node.is_scope
                    /\ body[j].ann \in { sanitize_name(body[j].name),
                                         ArrayOf(sanitize_name(body[j].name)) } )
                  => ClassNamed(sanitize_name(body[j].name)) # {}

\* C10: every class header is immediately followed by an indented body line.
C10_ClassBodyNotEmpty ==
    pc = "done" =>
        \A i \in ClassLineIdx :
            /\ i < Len(stub)
            /\ stub[i + 1].kind \in {"attr", "decorator", "getitem", "getitem_str", "pass"}
            /\ stub[i + 1].indent # <<>>

\* the annotation the claims give a child with a node: a scope by its class,
\* a vector of known width by its width alias, anything else by its type tag
ScopeAnnotation(name, node) ==
    IF IsArrayTag(node.py_type)
    THEN IF HasParameter(node.py_type) THEN node.py_type ELSE ArrayOf(sanitize_name(name))
    ELSE sanitize_name(name)

ResolvedAnnotation(name, node) ==
    IF node.is_scope THEN ScopeAnnotation(name, node)
    ELSE IF IsVectorTag(node.py_type) /\ node.width # None
         THEN <<"LogicArray">> \o Decimal(node.width)
         ELSE node.py_type

\* the attribute lines and literal-keyed overloads of scope children, per class
ScopeChildLines(e) ==
    LET body == Body(emitted[e].line)
    IN { j \in 1..Len(body) :
            /\ body[j].kind \in {"attr", "getitem"}
            /\ ChildNamed(emitted[e].path, body[j].name).sub.node.is_scope }

\* C3 as stated: the annotation of a scope child is base[ClassName] when its
\* tag marks an array of scopes and carries no "[", and the bare class name in
\* every other case.
C3_BareUnlessUnparameterisedArray ==
    pc = "done" =>
        \A e \in EmittedIdx : \A j \in ScopeChildLines(e) :
            LET l   == Body(emitted[e].line)[j]
                tag == ChildNamed(emitted[e].path, l.name).sub.node.py_type
            IN l.ann = IF IsArrayTag(tag) /\ ~HasParameter(tag)
                       THEN ArrayOf(sanitize_name(l.name))
                       ELSE sanitize_name(l.name)

\* C3 amended: the annotation of a scope child, in its attribute line and in
\* its overload, is base[ClassName] when its tag marks an array of scopes and
\* carries no "[", the tag itself when it marks an array of scopes and carries
\* a "[", and the bare class name when it does not mark an array of scopes.
C3_ScopeChildAnnotation ==
    pc = "done" =>
        \A e \in EmittedIdx : \A j \in ScopeChildLines(e) :
            LET l == Body(emitted[e].line)[j]
            IN l.ann = ScopeAnnotation(l.name, ChildNamed(emitted[e].path, l.name).sub.node)

\* a nested class with a child that is an array of scopes with a parameterised
\* tag, which has an attribute line and an overload
C3_Witness ==
    /\ pc = "done"
    /\ \E e \in EmittedIdx :
          LET body == Body(emitted[e].line)
          IN /\ Len(emitted[e].path) > 1
             /\ \E i \in ScopeChildLines(e), j \in ScopeChildLines(e) :
                   /\ body[i].kind = "attr"
                   /\ body[j].kind = "getitem"
                   /\ body[i].name = body[j].name
                   /\ HasParameter(ChildNamed(emitted[e].path, body[i].name).sub.node.py_type)

\* C5: a child whose name contains "[" and ends with "]" never appears as an
\* attribute line nor as a literal-keyed overload of any class of the stub.
C5_IndexedChildrenNeverStatic ==
    \A i \in 1..Len(stub) :
        stub[i].kind \in {"attr", "getitem"} => ~IsIndexed(stub[i].name)

\* a class built from a node with an indexed child that has a node, whose
\* body nevertheless holds overloads and the fallback accessor
C5_Witness ==
    /\ pc = "done"
    /\ \E e \in EmittedIdx :
          /\ \E k \in 1..Len(ChildrenOf(emitted[e].path)) :
                /\ IsIndexed(ChildrenOf(emitted[e].path)[k].name)
                /\ ChildrenOf(emitted[e].path)[k].sub.has_node
          /\ \E j \in 1..Len(Body(emitted[e].line)) :
                Body(emitted[e].line)[j].kind = "getitem_str"
          /\ \E j \in 1..Len(Body(emitted[e].line)) :
                Body(emitted[e].line)[j].kind = "attr"

IsFiltered(item) == ~IsIndexed(item.name)
IsFilteredWithNode(item) == ~IsIndexed(item.name) /\ item.sub.has_node

\* the overload block of a class, against the children `kids` it is to cover
OverloadBlockCovers(body, kids) ==
    LET gets == SelectSeq(body, IsGetitem)
        fall == { j \in 1..Len(body) : body[j].kind = "getitem_str" }
        decs == { j \in 1..Len(body) : body[j].kind = "decorator" }
    IN /\ Len(gets) = Len(kids)
       /\ \A k \in 1..Len(kids) :
             /\ gets[k].name = kids[k].name
             /\ gets[k].ann = ResolvedAnnotation(kids[k].name, kids[k].sub.node)
       /\ Cardinality(fall) = IF kids = <<>> THEN 0 ELSE 1
       /\ Cardinality(decs) = Len(gets) + Cardinality(fall)
       /\ \A j \in fall :
             /\ body[j - 1].kind = "decorator"
             /\ \A k \in (j + 1)..Len(body) : body[k].kind = "blank"

\* C6 as stated: a class has an overload block iff it has a non-indexed
\* child; the block holds one literal-keyed overload per non-indexed child, in
\* insertion order, each returning the child's annotation, then one fallback
\* overload, the last signature of the class.
C6_OverloadPerNonIndexedChild ==
    pc = "done" =>
        \A e \in EmittedIdx :
            OverloadBlockCovers(Body(emitted[e].line),
                                SelectSeq(ChildrenOf(emitted[e].path), IsFiltered))

\* C6 amended: the same, over the non-indexed children that have a node.
C6_OverloadPerNonIndexedNode ==
    pc = "done" =>
        \A e \in EmittedIdx :
            OverloadBlockCovers(Body(emitted[e].line),
                                SelectSeq(ChildrenOf(emitted[e].path), IsFilteredWithNode))

\* a class with two non-indexed children with nodes, inserted against the
\* order of their names, and a child without a node
C6_Witness ==
    /\ pc = "done"
    /\ \E e \in EmittedIdx :
          LET ch   == ChildrenOf(emitted[e].path)
              kids == SelectSeq(ch, IsFilteredWithNode)
          IN /\ Len(kids) >= 2
             /\ StrLess(kids[2].name, kids[1].name)
             /\ \E k \in 1..Len(ch) : ~ch[k].sub.has_node
             /\ Len(SelectSeq(Body(emitted[e].line), IsGetitem)) = Len(kids)

\* C7: the stub holds exactly one alias per distinct width found on a leaf
\* with a vector tag and a width, and no other alias; the aliases are in
\* strictly ascending width order and precede the classes.
C7_WidthAliases ==
    pc = "done" =>
        LET W == { n.width : n \in { m \in get_nodes(hierarchy) :
                                        /\ ~m.is_scope
                                        /\ m.width # None
                                        /\ IsVectorTag(m.py_type) } }
            A == SelectSeq(stub, IsAlias)
        IN /\ \A w \in W :
                 Cardinality({ i \in 1..Len(A) : A[i].name = <<"LogicArray">> \o Decimal(w) }) = 1
           /\ \A i \in 1..Len(A) : \E w \in W : A[i].name = <<"LogicArray">> \o Decimal(w)
           /\ \A i \in 1..Len(A), j \in 1..Len(A) :
                 i < j => ParseDecimal(Tail(A[i].name)) < ParseDecimal(Tail(A[j].name))
           /\ \A i \in 1..Len(stub), j \in ClassLineIdx : stub[i].kind = "alias" => i < j

\* a stub with two aliases for a design that also holds a vector without a
\* width or a non-vector signal with one
C7_Witness ==
    /\ pc = "done"
    /\ Len(SelectSeq(stub, IsAlias)) = 2
    /\ \E n \in get_nodes(hierarchy) : n.width # None /\ ~IsVectorTag(n.py_type)

====
